---- MODULE Spec2Model ----
(***************************************************************************)
(* FunctionalInformationInterpreter                                        *)
(* (src/interpretdl/interpreter/functional_information.py).                *)
(*                                                                         *)
(* interpret and init_corr_mat are modelled statement group by statement   *)
(* group; pc[p] is the position of caller p.  The persisted store of       *)
(* correlation matrices is a small file system shared by all callers.      *)
(* Every caller runs the store protocol of interpret (lines 95-100) and    *)
(* init_corr_mat; the rest of interpret (lines 102-189), which touches no  *)
(* shared state, is followed for the caller Engine.                        *)
(*                                                                         *)
(* Spec     : one caller, a sequence of interpret calls.                   *)
(* SpecCall : one call, of interpret or of init_corr_mat, on a new engine  *)
(*            whose store is absent or left by an earlier session.         *)
(* SpecConc : several callers of interpret sharing the store.              *)
(*                                                                         *)
(* save_path_corr_mat is read by interpret but is missing from its         *)
(* signature; it is modelled as the parameter its docstring describes.     *)
(* The assertion on line 93 (one input per call) is the precondition of    *)
(* every call: imgs and data hold exactly one image.                       *)
(***************************************************************************)
EXTENDS Integers, Sequences, FiniteSets, TLC

\* ------------------------------------------------------------- bounds
MaxClass == 1
MaxData == 3
MaxSpecific == 2
MaxChannels == 4
MaxSamples == 3
MaxNoise == 1
MaxSplit == 3
MaxProba == 1
MaxCalls == 2
NumProcs == 2
Height == 2
Width == 2

Classes == 0..MaxClass
Probas == 0..MaxProba
Procs == 1..NumProcs
Engine == CHOOSE p \in Procs : \A q \in Procs : p <= q
NoLabel == 0 - 1
NoClasses == <<NoLabel>>
NoPath == [stem |-> "", npy |-> FALSE]
StorePaths == {[stem |-> "corr", npy |-> b] : b \in BOOLEAN}
ImagePath == [stem |-> "out", npy |-> FALSE]

\* ------------------------------------------------------------ helpers
RECURSIVE SeqsUpTo(_, _)
SeqsUpTo(S, n) ==
    IF n = 0 THEN {<<>>}
    ELSE LET prev == SeqsUpTo(S, n - 1)
         IN  prev \cup {Append(s, x) : s \in {t \in prev : Len(t) = n - 1}, x \in S}

LabelVectors == SeqsUpTo(Classes, MaxData)
SpecificChoices == {NoClasses} \cup SeqsUpTo(Classes, MaxSpecific)

Range(s) == {s[k] : k \in DOMAIN s}

RECURSIVE SumSeq(_)
SumSeq(s) == IF s = <<>> THEN 0 ELSE s[1] + SumSeq(Tail(s))

RECURSIVE SortedSeq(_)
SortedSeq(S) ==
    IF S = {} THEN <<>>
    ELSE LET m == CHOOSE x \in S : \A y \in S : x <= y
         IN  <<m>> \o SortedSeq(S \ {m})

\* ------------------------------------------------- numpy / os library
\* np.unique(labels): the sorted distinct labels.
NpUnique(labelvec) == SortedSeq(Range(labelvec))

\* np.where(labels == class_label)[0]: the indices carrying the label.
NpWhere(labelvec, class_label) == {k \in DOMAIN labelvec : labelvec[k] = class_label}

\* np.repeat(labels, count) for the one-element label array.
NpRepeat(label, count) == [k \in 1..count |-> label]

\* Python slice seq[lo:hi] (0-based, half open, clipped to the length).
Slice(s, lo, hi) == SubSeq(s, lo + 1, IF hi < Len(s) THEN hi ELSE Len(s))

\* np.concatenate(chunks, axis=0)
RECURSIVE NpConcatenate(_)
NpConcatenate(chunks) ==
    IF chunks = <<>> THEN <<>> ELSE chunks[1] \o NpConcatenate(Tail(chunks))

\* np.mean(gradients, axis=0, keepdims=True): the exact quotient sum/count.
NpMean(grads) == [num |-> SumSeq(grads), den |-> Len(grads)]

\* np.save(file, obj) appends ".npy" to a file name that lacks it.
NpSaveFile(path) == [path EXCEPT !.npy = TRUE]

\* os.path.exists(path)
PathExists(files, path) == files[path].state # "absent"

EmptyMap == [c \in {} |-> 0]
AbsentFile == [state |-> "absent", data |-> EmptyMap]
PartialFile == [state |-> "partial", data |-> EmptyMap]
CompleteFile(mapping) == [state |-> "complete", data |-> mapping]

NoMatrix == [of |-> NoLabel, rows |-> 0, cols |-> 0]
NoMean == [num |-> 0, den |-> 0]

VARIABLES
    fs, save_path_corr_mat, calls,
    pc, err, correlation_matrices,
    icm_caller, icm_save_path, icm_labels, icm_specific_classes, icm_channels,
    data, labels, predicted_label, predicted_proba, covariance_matrix,
    n_samples, data_noised, i, split, chunk, loop_i,
    gradient_chunks, gradients, avg_gradients, sent,
    visual, save_path, result,
    self_predicted_label, self_predicted_proba, self_labels

storeVars == <<fs, save_path_corr_mat>>
procVars == <<pc, err, correlation_matrices>>
icmVars == <<icm_caller, icm_save_path, icm_labels, icm_specific_classes, icm_channels>>
callVars == <<data, labels, predicted_label, predicted_proba, covariance_matrix,
              n_samples, data_noised, i, split, chunk, loop_i,
              gradient_chunks, gradients, avg_gradients, sent,
              visual, save_path, result>>
selfVars == <<self_predicted_label, self_predicted_proba, self_labels>>
vars == <<storeVars, calls, procVars, icmVars, callVars, selfVars>>

\* ------------------------------------------------------- init_corr_mat
\* a plausible slip: any tensor with at least three channels passes
ChannelsOkAtLeast(channels) == channels >= 3

\* line 233: assert data.shape[1] == 3
ChannelsOk(channels) == channels = 3

\* a plausible slip: only classes without any sample are skipped
InsufficientSamplesNone(count) == count < 1

\* line 245: class_data.shape[0] < 2
InsufficientSamples(count) == count < 2

\* lines 250-260: the (num_pixels, num_pixels) matrix estimated for a class.
CorrMatrix(class_label) ==
    [of |-> class_label, rows |-> Height * Width, cols |-> Height * Width]

\* line 237
UniqueClasses(labelvec, specific_classes) ==
    IF specific_classes = NoClasses THEN NpUnique(labelvec) ELSE specific_classes

\* lines 240-262: the loop over unique_classes filling the dictionary.
RECURSIVE ClassLoop(_, _, _)
ClassLoop(classes, labelvec, acc) ==
    IF classes = <<>> THEN acc
    ELSE LET class_label == Head(classes)
             class_indices == NpWhere(labelvec, class_label)
         IN  IF InsufficientSamples(Cardinality(class_indices))
             THEN ClassLoop(Tail(classes), labelvec, acc)
             ELSE ClassLoop(Tail(classes), labelvec,
                            [c \in DOMAIN acc \cup {class_label} |->
                                IF c = class_label THEN CorrMatrix(class_label)
                                ELSE acc[c]])

InitCorrMat(labelvec, specific_classes) ==
    ClassLoop(UniqueClasses(labelvec, specific_classes), labelvec, EmptyMap)

InitCall ==
    /\ data = 0 /\ labels = NoLabel /\ predicted_label = NoLabel
    /\ predicted_proba = NoLabel /\ covariance_matrix = NoMatrix
    /\ n_samples = 0 /\ data_noised = <<>> /\ i = NoLabel /\ split = 0
    /\ chunk = 0 /\ loop_i = 0 /\ gradient_chunks = <<>> /\ gradients = <<>>
    /\ avg_gradients = NoMean /\ sent = <<>> /\ visual = FALSE
    /\ save_path = NoPath /\ result = NoMean

ResetCall ==
    /\ data' = 0 /\ labels' = NoLabel /\ predicted_label' = NoLabel
    /\ predicted_proba' = NoLabel /\ covariance_matrix' = NoMatrix
    /\ n_samples' = 0 /\ data_noised' = <<>> /\ i' = NoLabel /\ split' = 0
    /\ chunk' = 0 /\ loop_i' = 0 /\ gradient_chunks' = <<>> /\ gradients' = <<>>
    /\ avg_gradients' = NoMean /\ sent' = <<>> /\ visual' = FALSE
    /\ save_path' = NoPath /\ result' = NoMean

ResetIcm(p) ==
    /\ icm_caller' = [icm_caller EXCEPT ![p] = ""]
    /\ icm_save_path' = [icm_save_path EXCEPT ![p] = NoPath]
    /\ icm_labels' = [icm_labels EXCEPT ![p] = <<>>]
    /\ icm_specific_classes' = [icm_specific_classes EXCEPT ![p] = NoClasses]
    /\ icm_channels' = [icm_channels EXCEPT ![p] = 0]

Init ==
    /\ fs = [f \in StorePaths |-> AbsentFile]
    /\ save_path_corr_mat \in StorePaths
    /\ calls = 0
    /\ pc = [p \in Procs |-> "idle"]
    /\ err = [p \in Procs |-> ""]
    /\ correlation_matrices = [p \in Procs |-> EmptyMap]
    /\ icm_caller = [p \in Procs |-> ""]
    /\ icm_save_path = [p \in Procs |-> NoPath]
    /\ icm_labels = [p \in Procs |-> <<>>]
    /\ icm_specific_classes = [p \in Procs |-> NoClasses]
    /\ icm_channels = [p \in Procs |-> 0]
    /\ InitCall
    /\ self_predicted_label = NoLabel
    /\ self_predicted_proba = NoLabel
    /\ self_labels = NoLabel

Finished(p) == pc[p] \in {"idle", "returned", "aborted", "estimated"}

\* A caller enters interpret (line 93); the locals of the previous call are gone.
CallInterpret(p) ==
    /\ Finished(p)
    /\ calls < MaxCalls
    /\ calls' = calls + 1
    /\ pc' = [pc EXCEPT ![p] = "check_store"]
    /\ err' = [err EXCEPT ![p] = ""]
    /\ correlation_matrices' = [correlation_matrices EXCEPT ![p] = EmptyMap]
    /\ ResetIcm(p)
    /\ ResetCall
    /\ UNCHANGED <<storeVars, selfVars>>

\* A caller enters init_corr_mat directly (line 192), with or without a
\* save_path and with or without specific_classes.
CallInitCorrMat(p) ==
    /\ Finished(p)
    /\ calls < MaxCalls
    /\ calls' = calls + 1
    /\ \E sp \in {NoPath, save_path_corr_mat} :
          icm_save_path' = [icm_save_path EXCEPT ![p] = sp]
    /\ \E sc \in SpecificChoices :
          icm_specific_classes' = [icm_specific_classes EXCEPT ![p] = sc]
    /\ icm_caller' = [icm_caller EXCEPT ![p] = "direct"]
    /\ icm_labels' = [icm_labels EXCEPT ![p] = <<>>]
    /\ icm_channels' = [icm_channels EXCEPT ![p] = 0]
    /\ pc' = [pc EXCEPT ![p] = "icm_compute"]
    /\ err' = [err EXCEPT ![p] = ""]
    /\ correlation_matrices' = [correlation_matrices EXCEPT ![p] = EmptyMap]
    /\ ResetCall
    /\ UNCHANGED <<storeVars, selfVars>>

\* lines 95-100: os.path.exists decides between np.load and init_corr_mat
\* (called with labels = dataset_labels, specific_classes = None and
\* save_path = save_path_corr_mat).
CheckStore(p) ==
    /\ pc[p] = "check_store"
    /\ IF PathExists(fs, save_path_corr_mat)
       THEN /\ pc' = [pc EXCEPT ![p] = "load"]
            /\ UNCHANGED icmVars
       ELSE /\ pc' = [pc EXCEPT ![p] = "icm_compute"]
            /\ icm_caller' = [icm_caller EXCEPT ![p] = "interpret"]
            /\ icm_save_path' = [icm_save_path EXCEPT ![p] = save_path_corr_mat]
            /\ icm_specific_classes' = [icm_specific_classes EXCEPT ![p] = NoClasses]
            /\ UNCHANGED <<icm_labels, icm_channels>>
    /\ UNCHANGED <<storeVars, calls, err, correlation_matrices, callVars, selfVars>>

\* line 97: np.load(...).item(); a file whose bytes are not all written yet
\* cannot be unpickled and np.load raises.
LoadStore(p) ==
    /\ pc[p] = "load"
    /\ IF fs[save_path_corr_mat].state = "complete"
       THEN /\ correlation_matrices' =
                  [correlation_matrices EXCEPT ![p] = fs[save_path_corr_mat].data]
            /\ pc' = [pc EXCEPT ![p] = "predict"]
            /\ UNCHANGED err
       ELSE /\ err' = [err EXCEPT ![p] = "LoadError"]
            /\ pc' = [pc EXCEPT ![p] = "aborted"]
            /\ UNCHANGED correlation_matrices
    /\ UNCHANGED <<storeVars, calls, icmVars, callVars, selfVars>>

\* lines 229-265: the dataset is transformed, its channel count asserted, and
\* the dictionary filled; line 268 decides whether it is saved.
EstimatorCompute(p) ==
    /\ pc[p] = "icm_compute"
    /\ \E channels \in 1..MaxChannels, labelvec \in LabelVectors :
          /\ icm_channels' = [icm_channels EXCEPT ![p] = channels]
          /\ icm_labels' = [icm_labels EXCEPT ![p] = labelvec]
          /\ IF ChannelsOk(channels)
             THEN /\ correlation_matrices' =
                        [correlation_matrices EXCEPT
                            ![p] = InitCorrMat(labelvec, icm_specific_classes[p])]
                  /\ pc' = [pc EXCEPT ![p] =
                               IF icm_save_path[p] # NoPath THEN "icm_save"
                               ELSE "icm_return"]
                  /\ UNCHANGED err
             ELSE /\ err' = [err EXCEPT ![p] = "AssertionError"]
                  /\ pc' = [pc EXCEPT ![p] = "aborted"]
                  /\ UNCHANGED correlation_matrices
    /\ UNCHANGED <<storeVars, calls, icm_caller, icm_save_path,
                   icm_specific_classes, callVars, selfVars>>

\* line 269, first half: np.save opens the target for writing, which creates
\* or truncates it.
SaveOpen(p) ==
    /\ pc[p] = "icm_save"
    /\ fs' = [fs EXCEPT ![NpSaveFile(icm_save_path[p])] = PartialFile]
    /\ pc' = [pc EXCEPT ![p] = "icm_write"]
    /\ UNCHANGED <<save_path_corr_mat, calls, err, correlation_matrices,
                   icmVars, callVars, selfVars>>

\* line 269, second half: the pickled dictionary is written and the file closed.
SaveClose(p) ==
    /\ pc[p] = "icm_write"
    /\ fs' = [fs EXCEPT ![NpSaveFile(icm_save_path[p])] =
                 CompleteFile(correlation_matrices[p])]
    /\ pc' = [pc EXCEPT ![p] = "icm_return"]
    /\ UNCHANGED <<save_path_corr_mat, calls, err, correlation_matrices,
                   icmVars, callVars, selfVars>>

\* line 272: the dictionary is returned, to interpret (line 100) or to the
\* direct caller; init_corr_mat's locals are gone.
EstimatorReturn(p) ==
    /\ pc[p] = "icm_return"
    /\ pc' = [pc EXCEPT ![p] =
                 IF icm_caller[p] = "interpret" THEN "predict" ELSE "estimated"]
    /\ ResetIcm(p)
    /\ UNCHANGED <<storeVars, calls, err, correlation_matrices, callVars, selfVars>>

StoreStep(p) ==
    \/ CallInterpret(p)
    \/ CheckStore(p)
    \/ LoadStore(p)
    \/ EstimatorCompute(p)
    \/ SaveOpen(p)
    \/ SaveClose(p)
    \/ EstimatorReturn(p)

\* Concurrent callers sharing the store; each follows interpret up to the
\* point where its dictionary is in memory.
NextConc == \E p \in Procs : StoreStep(p)

SpecConc == Init /\ [][NextConc]_vars

\* ------------------------------------------------------------ interpret
\* self.predict_fn, the gradient collaborator: one gradient per sample of the
\* batch, a fixed function of the sample and of the label paired with it.
Gradient(x, label) == (label + 2) * x + label

PredictFn(batch, labelvec) ==
    [k \in DOMAIN batch |->
        Gradient(batch[k], IF k \in DOMAIN labelvec THEN labelvec[k] ELSE NoLabel)]

\* line 102: the tensor of the one input image, as one pixel value.
InputImage == Height * Width

\* lines 111-114: the label the call explains.
ResolveLabel(given, predicted) == IF given = NoLabel THEN predicted ELSE given

\* a plausible slip: dict.get with np.identity(num_pixels) as the default
CorrMatLookupIdentity(mapping, label) ==
    IF label \in DOMAIN mapping THEN mapping[label]
    ELSE [of |-> label, rows |-> Height * Width, cols |-> Height * Width]

\* line 116: correlation_matrices[labels[0]]; NoMatrix stands for the KeyError
\* a dictionary raises on a key it does not hold.
CorrMatLookup(mapping, label) ==
    IF label \in DOMAIN mapping THEN mapping[label] ELSE NoMatrix

\* line 159
ChunkSize(n, s) == n \div s

\* line 162: the lower slice bound of loop iteration k
LoopChunkLo(k, c) == k * c

\* a plausible slip: an inclusive upper bound
LoopChunkHiInclusive(k, c) == (k + 1) * c - 1

\* line 162: the upper slice bound of loop iteration k
LoopChunkHi(k, c) == (k + 1) * c

\* a plausible slip: the last chunk starts after split full chunks
LastChunkLoAfterAll(c, s) == c * s

\* line 164: where the last chunk starts
LastChunkLo(c, s) == c * (s - 1)

\* a plausible slip: the last chunk is labelled like the others
LastChunkCountAsChunk(n, c, s) == c

\* line 165: the label count of the last chunk
LastChunkCount(n, c, s) == n - c * (s - 1)

\* lines 180 and 183: imgs[i] and save_path[i] on the one-element imgs and
\* save_path; an index past the end raises IndexError.
IndexInRange(index) == index < 1

Invocation(lo, batch, labelvec, noised) ==
    [lo |-> lo, batch |-> batch, labelvec |-> labelvec, noised |-> noised]

Abort(e) ==
    /\ err' = [err EXCEPT ![Engine] = e]
    /\ pc' = [pc EXCEPT ![Engine] = "aborted"]

Goto(l) ==
    /\ pc' = [pc EXCEPT ![Engine] = l]
    /\ UNCHANGED err

\* lines 102-114: the input is transformed, predict_fn is called once on it
\* with the labels argument as given, the prediction is recorded on the
\* instance and the target label resolved.
Predict ==
    /\ pc[Engine] = "predict"
    /\ \E given \in {NoLabel} \cup Classes, pl \in Classes, pp \in Probas :
          /\ data' = InputImage
          /\ sent' = <<Invocation(0, <<InputImage>>,
                                  IF given = NoLabel THEN <<>> ELSE <<given>>,
                                  FALSE)>>
          /\ predicted_label' = pl
          /\ predicted_proba' = pp
          /\ self_predicted_label' = pl
          /\ self_predicted_proba' = pp
          /\ labels' = ResolveLabel(given, pl)
    /\ Goto("lookup")
    /\ UNCHANGED <<storeVars, calls, correlation_matrices, icmVars, covariance_matrix,
                   n_samples, data_noised, i, split, chunk, loop_i, gradient_chunks,
                   gradients, avg_gradients, visual, save_path, result, self_labels>>

\* lines 116-117
Lookup ==
    /\ pc[Engine] = "lookup"
    /\ LET corr_mat == CorrMatLookup(correlation_matrices[Engine], labels)
       IN  IF corr_mat = NoMatrix
           THEN /\ Abort("KeyError")
                /\ UNCHANGED covariance_matrix
           ELSE /\ covariance_matrix' = corr_mat
                /\ Goto("sample")
    /\ UNCHANGED <<storeVars, calls, correlation_matrices, icmVars, data, labels,
                   predicted_label, predicted_proba, n_samples, data_noised, i, split,
                   chunk, loop_i, gradient_chunks, gradients, avg_gradients, sent,
                   visual, save_path, result, selfVars>>

\* lines 119-137: n_samples noise fields are drawn and added to the input; the
\* loop leaves i at n_samples - 1.
Sample ==
    /\ pc[Engine] = "sample"
    /\ \E n \in 1..MaxSamples :
          \E noise \in [1..n -> 0..MaxNoise] :
             /\ n_samples' = n
             /\ data_noised' = [k \in 1..n |-> data + noise[k]]
             /\ i' = n - 1
    /\ Goto("split")
    /\ UNCHANGED <<storeVars, calls, correlation_matrices, icmVars, data, labels,
                   predicted_label, predicted_proba, covariance_matrix, split, chunk,
                   loop_i, gradient_chunks, gradients, avg_gradients, sent, visual,
                   save_path, result, selfVars>>

\* lines 158-160
SplitBranch ==
    /\ pc[Engine] = "split"
    /\ \E s \in 1..MaxSplit :
          /\ split' = s
          /\ IF s > 1
             THEN /\ chunk' = ChunkSize(n_samples, s)
                  /\ Goto("chunk_loop")
             ELSE /\ UNCHANGED chunk
                  /\ Goto("one_split")
    /\ loop_i' = 0
    /\ gradient_chunks' = <<>>
    /\ UNCHANGED <<storeVars, calls, correlation_matrices, icmVars, data, labels,
                   predicted_label, predicted_proba, covariance_matrix, n_samples,
                   data_noised, i, gradients, avg_gradients, sent, visual, save_path,
                   result, selfVars>>

\* lines 161-163: one iteration of for i in range(split - 1)
ChunkStep ==
    /\ pc[Engine] = "chunk_loop"
    /\ loop_i < split - 1
    /\ i' = loop_i
    /\ loop_i' = loop_i + 1
    /\ LET lo == LoopChunkLo(loop_i, chunk)
           batch == Slice(data_noised, lo, LoopChunkHi(loop_i, chunk))
           labelvec == NpRepeat(labels, chunk)
       IN  /\ sent' = Append(sent, Invocation(lo, batch, labelvec, TRUE))
           /\ gradient_chunks' = Append(gradient_chunks, PredictFn(batch, labelvec))
    /\ UNCHANGED <<storeVars, calls, procVars, icmVars, data, labels, predicted_label,
                   predicted_proba, covariance_matrix, n_samples, data_noised, split,
                   chunk, gradients, avg_gradients, visual, save_path, result, selfVars>>

\* lines 164-167: the last chunk takes the rest, then the chunks are concatenated
LastChunk ==
    /\ pc[Engine] = "chunk_loop"
    /\ loop_i = split - 1
    /\ LET lo == LastChunkLo(chunk, split)
           batch == Slice(data_noised, lo, Len(data_noised))
           labelvec == NpRepeat(labels, LastChunkCount(n_samples, chunk, split))
           all_chunks == Append(gradient_chunks, PredictFn(batch, labelvec))
       IN  /\ sent' = Append(sent, Invocation(lo, batch, labelvec, TRUE))
           /\ gradient_chunks' = all_chunks
           /\ gradients' = NpConcatenate(all_chunks)
    /\ Goto("average")
    /\ UNCHANGED <<storeVars, calls, correlation_matrices, icmVars, data, labels,
                   predicted_label, predicted_proba, covariance_matrix, n_samples,
                   data_noised, i, split, chunk, loop_i, avg_gradients, visual,
                   save_path, result, selfVars>>

\* line 170
OneSplit ==
    /\ pc[Engine] = "one_split"
    /\ LET labelvec == NpRepeat(labels, n_samples)
       IN  /\ sent' = Append(sent, Invocation(0, data_noised, labelvec, TRUE))
           /\ gradients' = PredictFn(data_noised, labelvec)
    /\ Goto("average")
    /\ UNCHANGED <<storeVars, calls, correlation_matrices, icmVars, data, labels,
                   predicted_label, predicted_proba, covariance_matrix, n_samples,
                   data_noised, i, split, chunk, loop_i, gradient_chunks,
                   avg_gradients, visual, save_path, result, selfVars>>

\* line 172
Average ==
    /\ pc[Engine] = "average"
    /\ avg_gradients' = NpMean(gradients)
    /\ Goto("present")
    /\ UNCHANGED <<storeVars, calls, correlation_matrices, icmVars, data, labels,
                   predicted_label, predicted_proba, covariance_matrix, n_samples,
                   data_noised, i, split, chunk, loop_i, gradient_chunks, gradients,
                   sent, visual, save_path, result, selfVars>>

\* lines 174-184: nothing to do without visual and save_path; otherwise imgs[i]
\* and save_path[i] are read with the i the loops above left behind.
Present ==
    /\ pc[Engine] = "present"
    /\ \E v \in BOOLEAN, sp \in {NoPath, ImagePath} :
          /\ visual' = v
          /\ save_path' = sp
          /\ IF sp = NoPath /\ ~v
             THEN Goto("return")
             ELSE IF IndexInRange(i) THEN Goto("return") ELSE Abort("IndexError")
    /\ UNCHANGED <<storeVars, calls, correlation_matrices, icmVars, data, labels,
                   predicted_label, predicted_proba, covariance_matrix, n_samples,
                   data_noised, i, split, chunk, loop_i, gradient_chunks, gradients,
                   avg_gradients, sent, result, selfVars>>

\* lines 187-189
Return ==
    /\ pc[Engine] = "return"
    /\ self_labels' = labels
    /\ result' = avg_gradients
    /\ Goto("returned")
    /\ UNCHANGED <<storeVars, calls, correlation_matrices, icmVars, data, labels,
                   predicted_label, predicted_proba, covariance_matrix, n_samples,
                   data_noised, i, split, chunk, loop_i, gradient_chunks, gradients,
                   avg_gradients, sent, visual, save_path, self_predicted_label,
                   self_predicted_proba>>

\* One caller, one interpret call after another, from a new engine and an
\* empty store.
Next ==
    \/ StoreStep(Engine)
    \/ Predict
    \/ Lookup
    \/ Sample
    \/ SplitBranch
    \/ ChunkStep
    \/ LastChunk
    \/ OneSplit
    \/ Average
    \/ Present
    \/ Return

Spec == Init /\ [][Next]_vars

\* The mappings an earlier session can have left in the store: what
\* init_corr_mat, called by interpret, saves for some dataset.
StoredMappings == {InitCorrMat(labelvec, NoClasses) : labelvec \in LabelVectors}

\* A new engine whose store is absent or was written by an earlier session.
InitStored ==
    /\ save_path_corr_mat \in StorePaths
    /\ \E content \in {AbsentFile} \cup {CompleteFile(m) : m \in StoredMappings} :
          fs = [f \in StorePaths |->
                   IF f = NpSaveFile(save_path_corr_mat) THEN content ELSE AbsentFile]
    /\ calls = 0
    /\ pc = [p \in Procs |-> "idle"]
    /\ err = [p \in Procs |-> ""]
    /\ correlation_matrices = [p \in Procs |-> EmptyMap]
    /\ icm_caller = [p \in Procs |-> ""]
    /\ icm_save_path = [p \in Procs |-> NoPath]
    /\ icm_labels = [p \in Procs |-> <<>>]
    /\ icm_specific_classes = [p \in Procs |-> NoClasses]
    /\ icm_channels = [p \in Procs |-> 0]
    /\ InitCall
    /\ self_predicted_label = NoLabel
    /\ self_predicted_proba = NoLabel
    /\ self_labels = NoLabel

FirstCallInterpret == calls = 0 /\ CallInterpret(Engine)
FirstCallInitCorrMat == calls = 0 /\ CallInitCorrMat(Engine)

\* The first call on the engine, of interpret or of init_corr_mat directly,
\* followed to its end.
NextCall ==
    \/ FirstCallInterpret
    \/ FirstCallInitCorrMat
    \/ CheckStore(Engine)
    \/ LoadStore(Engine)
    \/ EstimatorCompute(Engine)
    \/ SaveOpen(Engine)
    \/ SaveClose(Engine)
    \/ EstimatorReturn(Engine)
    \/ Predict
    \/ Lookup
    \/ Sample
    \/ SplitBranch
    \/ ChunkStep
    \/ LastChunk
    \/ OneSplit
    \/ Average
    \/ Present
    \/ Return

SpecCall == InitStored /\ [][NextCall]_vars

\* ------------------------------------------------------------- claims
IsNoised(v) == v.noised
NoisedInvocations == SelectSeq(sent, IsNoised)
IndexRange(v) == {v.lo + k - 1 : k \in DOMAIN v.batch}
AllSamples == {k - 1 : k \in DOMAIN data_noised}
EngineAborted(e) == pc[Engine] = "aborted" /\ err[Engine] = e
PastLookup ==
    \/ pc[Engine] \in {"sample", "split", "chunk_loop", "one_split", "average",
                       "present", "return", "returned"}
    \/ EngineAborted("IndexError")
ChunksDone ==
    \/ pc[Engine] \in {"average", "present", "return", "returned"}
    \/ EngineAborted("IndexError")
EstimatorComputed(p) == pc[p] \in {"icm_save", "icm_write", "icm_return"}
RequestedClasses(p) ==
    IF icm_specific_classes[p] = NoClasses THEN Range(icm_labels[p])
    ELSE Range(icm_specific_classes[p])
SampleCount(p, c) == Cardinality({k \in DOMAIN icm_labels[p] : icm_labels[p][k] = c})
ChunkSizes(n, s) ==
    [k \in 1..s |->
        IF k < s
        THEN LoopChunkHi(k - 1, ChunkSize(n, s)) - LoopChunkLo(k - 1, ChunkSize(n, s))
        ELSE LastChunkCount(n, ChunkSize(n, s), s)]
OneSplitGradients == PredictFn(data_noised, NpRepeat(labels, n_samples))

\* C1: once every chunk of a call has been sent to the gradient collaborator,
\* the index ranges of the chunks are pairwise disjoint, their union is
\* 0..n_samples-1, their sizes sum to n_samples and each chunk holds exactly
\* the samples of its range, whether or not split divides n_samples and also
\* when n_samples < split; for n_samples=50, split=3 the sizes are 16,16,18.
C1_ChunkCoverage ==
    /\ ChunkSizes(50, 3) = <<16, 16, 18>>
    /\ ChunksDone =>
          LET inv == NoisedInvocations
          IN  /\ Len(inv) = (IF split > 1 THEN split ELSE 1)
              /\ \A a, b \in DOMAIN inv :
                    a # b => IndexRange(inv[a]) \cap IndexRange(inv[b]) = {}
              /\ UNION {IndexRange(inv[a]) : a \in DOMAIN inv} = AllSamples
              /\ SumSeq([a \in DOMAIN inv |-> Len(inv[a].batch)]) = n_samples
              /\ \A a \in DOMAIN inv : \A k \in DOMAIN inv[a].batch :
                    inv[a].batch[k] = data_noised[inv[a].lo + k]
              /\ Len(data_noised) = n_samples

C1_Witness ==
    /\ pc[Engine] = "average"
    /\ split > 1
    /\ n_samples > split
    /\ n_samples % split # 0

\* C2: whatever the split, the gradients are those of the whole batch in
\* sample order and the map is their single mean over n_samples, which is what
\* the split=1 branch computes on the same perturbed samples.
C2_SplitIndependent ==
    /\ ChunksDone => gradients = OneSplitGradients
    /\ pc[Engine] \in {"present", "return", "returned"} =>
          avg_gradients = NpMean(OneSplitGradients)
    /\ pc[Engine] = "returned" => result = NpMean(OneSplitGradients)

C2_Witness ==
    /\ pc[Engine] = "returned"
    /\ split > 1
    /\ n_samples > split
    /\ n_samples % split # 0
    /\ \E a, b \in DOMAIN gradients : gradients[a] # gradients[b]

\* C3: a call whose resolved label has no entry in the mapping aborts with the
\* dictionary's missing-key error before any noise is sampled, any chunk sent
\* or any map produced, and a call that gets past the lookup uses the entry of
\* its label, never a default covariance.
C3_MissingEntryFails ==
    /\ EngineAborted("KeyError") =>
          /\ labels \notin DOMAIN correlation_matrices[Engine]
          /\ covariance_matrix = NoMatrix
          /\ data_noised = <<>>
          /\ NoisedInvocations = <<>>
          /\ avg_gradients = NoMean
          /\ result = NoMean
    /\ PastLookup =>
          /\ labels \in DOMAIN correlation_matrices[Engine]
          /\ covariance_matrix = correlation_matrices[Engine][labels]

C3_Witness ==
    /\ EngineAborted("KeyError")
    /\ DOMAIN correlation_matrices[Engine] # {}

C5_PresentationNoEffect ==
    (pc[Engine] \in {"returned", "aborted"} /\ (visual \/ save_path # NoPath)) =>
        /\ pc[Engine] = "returned"
        /\ result = NpMean(gradients)

\* C6: no caller that found the store present reads anything but the complete
\* mapping.
C6_AtomicStore ==
    \A p \in Procs :
        /\ pc[p] = "load" => fs[save_path_corr_mat].state = "complete"
        /\ ~(pc[p] = "aborted" /\ err[p] = "LoadError")

\* C7 as stated: the estimator rejects a dataset only when it has fewer than 3
\* channels.
C7_AtLeastThreeChannels ==
    \A p \in Procs :
        (pc[p] = "aborted" /\ err[p] = "AssertionError") => icm_channels[p] < 3

\* C7, amended: the estimator goes on only with exactly 3 channels; with any
\* other channel count, above 3 as well as below, it fails on its assertion,
\* produces no mapping and leaves the store as it was.
C7_ExactlyThreeChannels ==
    [][\A p \in Procs :
          pc[p] = "icm_compute" /\ pc'[p] # "icm_compute" =>
              IF icm_channels'[p] = 3
              THEN /\ pc'[p] \in {"icm_save", "icm_return"}
                   /\ err'[p] = ""
              ELSE /\ pc'[p] = "aborted"
                   /\ err'[p] = "AssertionError"
                   /\ correlation_matrices'[p] = EmptyMap
                   /\ fs' = fs]_vars

C7_Witness ==
    /\ pc[Engine] = "aborted"
    /\ err[Engine] = "AssertionError"
    /\ icm_channels[Engine] > 3

\* C8: the resolved label is the given one, or else the prediction of the one
\* collaborator call on the unperturbed input; the matrix used is the entry of
\* that label; every chunk goes out with one copy of that label per sample.
C8_LabelsPerChunk ==
    sent # <<>> =>
        /\ ~sent[1].noised
        /\ sent[1].batch = <<data>>
        /\ \A a \in DOMAIN sent : a > 1 => sent[a].noised
        /\ labels = (IF sent[1].labelvec = <<>> THEN predicted_label
                     ELSE sent[1].labelvec[1])
        /\ PastLookup =>
              /\ covariance_matrix = correlation_matrices[Engine][labels]
              /\ covariance_matrix.of = labels
        /\ \A a \in DOMAIN sent :
              sent[a].noised =>
                  /\ Len(sent[a].labelvec) = Len(sent[a].batch)
                  /\ \A k \in DOMAIN sent[a].labelvec : sent[a].labelvec[k] = labels

C8_Witness ==
    /\ pc[Engine] = "average"
    /\ sent[1].labelvec = <<>>
    /\ split > 1
    /\ n_samples > split
    /\ n_samples % split # 0

\* C9: when a call that reached the prediction has ended, by a return or by an
\* abort, predicted_label, predicted_proba and labels on the instance are all
\* those of that call.
C9_SessionOfLastCall ==
    (pc[Engine] \in {"returned", "aborted"} /\ sent # <<>>) =>
        /\ self_predicted_label = predicted_label
        /\ self_predicted_proba = predicted_proba
        /\ self_labels = labels

\* C10: once the mapping has been persisted, no interpret call runs the
\* estimator again.
C10_EstimateOnce ==
    (pc[Engine] = "icm_compute" /\ icm_caller[Engine] = "interpret") =>
        \A f \in StorePaths : fs[f].state # "complete"

====
